---- MODULE Spec2Model ----
(***************************************************************************)
(* A model of create_test_users.py: the CreateTestUsers class, its loop    *)
(* over synthetic identities and the three HTTP calls it makes for each.   *)
(*                                                                         *)
(* Strings are TLA+ strings.  The non-ASCII glyphs of the log messages are *)
(* written in ASCII: the arrow as "->", the check mark as "v".             *)
(* Delays are in milliseconds (0.1 s = 100).                               *)
(***************************************************************************)
EXTENDS Integers, Sequences, FiniteSets, TLC

(***************************************************************************)
(* Bounds of the model.                                                    *)
(***************************************************************************)
MaxCount == 3
MaxTextLen == 4
MaxLimit == 3
MaxDisplayCount == 11
MaxFaultyCount == 3

(***************************************************************************)
(* Configurable options that are not varied.                               *)
(***************************************************************************)
USER_API_URL == "http://127.0.0.1:8000/api/users/"
LOGIN_API_URL == "http://127.0.0.1:8000/api/token/"
PROFILE_API_URL == "http://127.0.0.1:8000/api/user-profile/"
EMAIL_PREFIX == "testuser"
\* DOMAIN in the source; DOMAIN is a TLA+ keyword
EMAIL_DOMAIN == "example.com"
PASSWORD == "testpassword"
UNIQUE_PASSWORDS == TRUE
USER_CREATION_DELAY == 100
LOGIN_DELAY == 200
PROFILE_CREATION_DELAY == 300
MAX_ERROR_DISPLAY == 10
DefaultLimit == 100
SummaryLimit == 200
Timeout == 10
Ellipsis == "..."

VARIABLES
    verbose,            \* self.verbose
    CREATE_PROFILES,    \* module option, fixed during a run
    USE_LOGIN_TOKEN,    \* module option, fixed during a run
    START,              \* module option, fixed during a run
    COUNT,              \* module option, fixed during a run
    users_created,      \* self.users_created
    profiles_created,   \* self.profiles_created
    failed,             \* self.failed
    errors,             \* self.errors: sequence of <<email, message>>
    pc,                 \* position of create_test_users
    i,                  \* the loop variable
    user_id,            \* local of create_test_users
    access_token,       \* local of create_test_users
    out,                \* the lines printed so far
    calls,              \* history: every requests.post and time.sleep, in order
    iter0,              \* history: the counters when the current iteration began
    summary,            \* the value create_test_users returns
    st_text, st_limit, st_result, st_pc   \* a call of short_text

config == <<verbose, CREATE_PROFILES, USE_LOGIN_TOKEN, START, COUNT>>
counters == <<users_created, profiles_created, failed, errors>>
locals == <<pc, i, user_id, access_token>>
runvars == <<config, counters, locals, out, calls, iter0, summary>>
stvars == <<st_text, st_limit, st_result, st_pc>>
vars == <<runvars, stvars>>

(***************************************************************************)
(* Python values: None, str, int and dict, and the operations the code     *)
(* applies to them.                                                        *)
(***************************************************************************)
None == [t |-> "null"]
VStr(s) == [t |-> "str", v |-> s]
VInt(n) == [t |-> "int", v |-> n]
VDict(d) == [t |-> "dict", v |-> d]
EmptyDict == VDict(<<>>)

\* bool(x)
Truthy(x) ==
    CASE x.t = "null" -> FALSE
      [] x.t = "str"  -> x.v # ""
      [] x.t = "int"  -> x.v # 0
      [] x.t = "dict" -> DOMAIN x.v # {}

\* x.get exists
HasGet(x) == x.t = "dict"

\* d.get(k, default), for a dict d
Get(d, k, default) == IF k \in DOMAIN d.v THEN d.v[k] ELSE default

\* str(x), as an f-string formats it
PyStr(x) ==
    CASE x.t = "null" -> "None"
      [] x.t = "str"  -> x.v
      [] x.t = "int"  -> ToString(x.v)
      [] x.t = "dict" -> "{...}"

RECURSIVE Rep(_, _)
\* s * n
Rep(s, n) ==
    IF n <= 0 THEN ""
    ELSE IF n = 1 THEN s
    ELSE Rep(s, n \div 2) \o Rep(s, n - n \div 2)

UpperChars == "ABCDEFGHIJKLMNOPQRSTUVWXYZ"
LowerChars == "abcdefghijklmnopqrstuvwxyz"

\* the lower-case letter of each upper-case letter
LowerMap ==
    [c \in {SubSeq(UpperChars, k, k) : k \in 1..Len(UpperChars)} |->
        LET k == CHOOSE k \in 1..Len(UpperChars) : SubSeq(UpperChars, k, k) = c
        IN  SubSeq(LowerChars, k, k)]

LowerChar(c) == IF c \in DOMAIN LowerMap THEN LowerMap[c] ELSE c

RECURSIVE Lower(_)
\* s.lower()
Lower(s) ==
    IF Len(s) <= 1 THEN LowerChar(s)
    ELSE Lower(SubSeq(s, 1, Len(s) \div 2))
             \o Lower(SubSeq(s, Len(s) \div 2 + 1, Len(s)))

\* needle in hay
Contains(hay, needle) ==
    \E k \in 1..(Len(hay) - Len(needle) + 1) :
        SubSeq(hay, k, k + Len(needle) - 1) = needle

\* text[:limit]
SliceTo(text, limit) ==
    IF limit >= 0
    THEN SubSeq(text, 1, IF limit < Len(text) THEN limit ELSE Len(text))
    ELSE SubSeq(text, 1, Len(text) + limit)

(***************************************************************************)
(* Helpers of CreateTestUsers.                                             *)
(***************************************************************************)
\* short_text with "<" for "<=": a text of exactly limit characters is cut
short_text_Strict(text, limit) ==
    IF Len(text) < limit THEN text ELSE SliceTo(text, limit) \o Ellipsis

\* short_text(text, limit)
short_text(text, limit) ==
    IF Len(text) <= limit THEN text ELSE SliceTo(text, limit) \o Ellipsis

\* log_line(message, level), on the lines o printed so far
log_line(o, message, level) ==
    IF ~verbose THEN o ELSE Append(o, Rep(" ", 4 * level) \o message)

\* the delays dict of wait, with its default of 0
DelayOf(delay_name) ==
    CASE delay_name = "user"    -> USER_CREATION_DELAY
      [] delay_name = "login"   -> LOGIN_DELAY
      [] delay_name = "profile" -> PROFILE_CREATION_DELAY
      [] OTHER                  -> 0

\* wait(delay_name), on the history c, during the iteration of index idx
wait(c, delay_name, idx) ==
    Append(c, [ev |-> "sleep", api |-> delay_name, idx |-> idx,
               ms |-> DelayOf(delay_name)])

\* requests.post(url, ...) and what came of it, on the history c
post(c, api, idx, url, req, resp) ==
    Append(c, [ev |-> "post", api |-> api, idx |-> idx, url |-> url,
               req |-> req, timeout |-> Timeout, resp |-> resp])

Email(idx) == EMAIL_PREFIX \o ToString(idx) \o "@" \o EMAIL_DOMAIN

Password(idx) == IF UNIQUE_PASSWORDS THEN PASSWORD \o ToString(idx) ELSE PASSWORD

\* IsSuccess without 201
IsSuccess_Only200(status) == status = 200

\* status_code in (200, 201)
IsSuccess(status) == status \in {200, 201}

\* AlreadyExists without the .lower()
AlreadyExists_CaseSensitive(resp) == resp.status = 400 /\ Contains(resp.text, "exist")

\* status_code == 400 and "exist" in response.text.lower()
AlreadyExists(resp) == resp.status = 400 /\ Contains(Lower(resp.text), "exist")

(***************************************************************************)
(* What requests.post can come back with: a response, or an exception.    *)
(* json_ok says whether response.json() parses; json_exc is the class the *)
(* installed requests raises when it does not.                            *)
(***************************************************************************)
Response(status, text, json_ok, json) ==
    [exc |-> "none", msg |-> "", status |-> status, text |-> text,
     json_ok |-> json_ok, json_exc |-> "RequestException", json |-> json]

Raised(cls, msg) ==
    [exc |-> cls, msg |-> msg, status |-> 0, text |-> "",
     json_ok |-> FALSE, json_exc |-> "RequestException", json |-> None]

JsonErrorText == "Expecting value: line 1 column 1 (char 0)"
NoGetText == "'NoneType' object has no attribute 'get'"
BodyExists == "{\"email\": [\"User with this email already Exists.\"]}"
\* a body longer than either truncation limit plus the ellipsis
BodyLong == "relation does not exist: " \o Rep("x", SummaryLimit + Len(Ellipsis))

UserResponses ==
    { Response(201, "{\"result\": {\"id\": 7, \"access\": \"tokC\"}}", TRUE,
               VDict([result |-> VDict([id |-> VInt(7), access |-> VStr("tokC")])])),
      Response(200, "{\"result\": {\"id\": 7}}", TRUE,
               VDict([result |-> VDict([id |-> VInt(7)])])),
      Response(201, "{\"result\": {\"access\": \"tokC\"}}", TRUE,
               VDict([result |-> VDict([access |-> VStr("tokC")])])),
      Response(200, "{\"result\": null}", TRUE, VDict([result |-> None])),
      Response(400, BodyExists, TRUE, EmptyDict),
      Response(400, "bad request", FALSE, None),
      Response(500, BodyLong, FALSE, None),
      Raised("RequestException", "Connection refused") }

LoginResponses ==
    { Response(200, "{\"result\": {\"access\": \"tokL\"}}", TRUE,
               VDict([result |-> VDict([access |-> VStr("tokL")])])),
      Response(201, "{\"result\": {}}", TRUE, VDict([result |-> EmptyDict])),
      Response(401, "invalid credentials", FALSE, None),
      Raised("RequestException", "Read timed out") }

ProfileResponses ==
    { Response(201, "{}", TRUE, EmptyDict),
      Response(400, BodyLong, FALSE, None),
      Raised("RequestException", "Read timed out") }

\* The exception that response.json() and the .get chain on it raise, if any:
\* data = response.json(); result = data.get("result", {}); result.get(...)
ParseFailure(resp) ==
    IF ~resp.json_ok THEN [cls |-> resp.json_exc, msg |-> JsonErrorText]
    ELSE IF ~HasGet(resp.json) THEN [cls |-> "Exception", msg |-> NoGetText]
    ELSE IF ~HasGet(Get(resp.json, "result", EmptyDict))
         THEN [cls |-> "Exception", msg |-> NoGetText]
    ELSE [cls |-> "none", msg |-> ""]

\* RecordFailure without the errors.append
RecordFailure_NoErrorRecord(email, msg, line, o) ==
    [failed |-> failed + 1,
     errors |-> errors,
     out |-> log_line(o, line, 2)]

\* RecordFailure counting the failure twice
RecordFailure_CountsTwice(email, msg, line, o) ==
    [failed |-> failed + 2,
     errors |-> Append(errors, <<email, msg>>),
     out |-> log_line(o, line, 2)]

\* RecordFailure with errors assigned a new one-record list
RecordFailure_Overwrites(email, msg, line, o) ==
    [failed |-> failed + 1,
     errors |-> << <<email, msg>> >>,
     out |-> log_line(o, line, 2)]

\* self.failed += 1; self.errors.append((email, msg)), after the line is logged:
\* what a failing login_user or create_user_profile leaves behind
RecordFailure(email, msg, line, o) ==
    [failed |-> failed + 1,
     errors |-> Append(errors, <<email, msg>>),
     out |-> log_line(o, line, 2)]

(***************************************************************************)
(* login_user(email, password), given what the POST came back with and the *)
(* lines printed so far: its return value and the fields it leaves behind. *)
(***************************************************************************)
login_user(email, password, resp, o) ==
    LET fail(line, msg) ==
            LET f == RecordFailure(email, msg, line, o)
            IN  [ret |-> None, failed |-> f.failed, errors |-> f.errors, out |-> f.out]
    IN  IF resp.exc # "none"
        THEN fail("-> [!] Exception during login: " \o resp.msg, resp.msg)
        ELSE IF IsSuccess(resp.status)
        THEN IF ParseFailure(resp).cls # "none"
             THEN fail("-> [!] Exception during login: " \o ParseFailure(resp).msg,
                       ParseFailure(resp).msg)
             ELSE LET access == Get(Get(resp.json, "result", EmptyDict), "access", None)
                  IN  IF Truthy(access)
                      THEN [ret |-> access, failed |-> failed, errors |-> errors,
                            out |-> log_line(o, "-> [v] Logged in: " \o email, 2)]
                      ELSE fail("-> [x] Login failed (missing access token): "
                                    \o short_text(resp.text, DefaultLimit),
                                resp.text)
        ELSE fail("-> [x] Login failed: " \o ToString(resp.status) \o " "
                      \o short_text(resp.text, DefaultLimit),
                  resp.text)

\* The message create_user_profile stores for a response that is no success
ProfileErrorMessage(resp) == "profile: " \o resp.text

(***************************************************************************)
(* create_user_profile(user_id, email, access_token), likewise.            *)
(***************************************************************************)
create_user_profile(uid, email, token, resp, o) ==
    LET fail(line, msg) ==
            LET f == RecordFailure(email, msg, line, o)
            IN  [ret |-> FALSE, profiles_created |-> profiles_created,
                 failed |-> f.failed, errors |-> f.errors, out |-> f.out]
    IN  IF resp.exc # "none"
        THEN fail("-> [!] Exception during profile creation: " \o resp.msg, resp.msg)
        ELSE IF IsSuccess(resp.status)
        THEN [ret |-> TRUE, profiles_created |-> profiles_created + 1,
              failed |-> failed, errors |-> errors,
              out |-> log_line(o, "-> [v] User profile created for " \o email, 2)]
        ELSE fail("-> [x] Failed to create profile: " \o ToString(resp.status) \o " "
                      \o short_text(resp.text, DefaultLimit),
                  ProfileErrorMessage(resp))

\* The requests the three calls send
UserRequest(idx) ==
    [json |-> [email |-> Email(idx), username |-> Email(idx), password |-> Password(idx)]]

LoginRequest(idx) ==
    [json |-> [email |-> Email(idx), password |-> Password(idx)]]

ProfileRequest(uid, token) ==
    [json |-> [user |-> uid],
     headers |-> [Authorization |-> "Bearer " \o PyStr(token),
                  ContentType |-> "application/json"]]

ProfileUrl == PROFILE_API_URL \o "?w8=false"

(***************************************************************************)
(* The state after CreateTestUsers() is constructed, as the entry point    *)
(* does (verbose defaults to True), and before create_test_users is        *)
(* called, for each setting of the options that are varied.                *)
(***************************************************************************)
NoSummary ==
    [returned |-> FALSE, users_created |-> 0, profiles_created |-> 0,
     failed |-> 0, errors |-> <<>>]

Snapshot ==
    [users_created |-> users_created, profiles_created |-> profiles_created,
     failed |-> failed, nerrors |-> Len(errors), ncalls |-> Len(calls)]

InitObject ==
    /\ users_created = 0
    /\ profiles_created = 0
    /\ failed = 0
    /\ errors = <<>>
    /\ user_id = None
    /\ access_token = None
    /\ out = <<>>
    /\ calls = <<>>
    /\ iter0 = [users_created |-> 0, profiles_created |-> 0, failed |-> 0,
                nerrors |-> 0, ncalls |-> 0]
    /\ summary = NoSummary

InitNoShortText ==
    /\ st_text = ""
    /\ st_limit = 0
    /\ st_result = ""
    /\ st_pc = "idle"

\* the values of START that are tried
StartValues == {1, 2}

Init ==
    /\ verbose = TRUE
    /\ CREATE_PROFILES \in BOOLEAN
    /\ USE_LOGIN_TOKEN \in BOOLEAN
    /\ START \in StartValues
    /\ COUNT \in 0..MaxCount
    /\ pc = "start"
    /\ i = START
    /\ InitObject
    /\ InitNoShortText

\* Range with its end included
Range_EndIncluded == START..(START + COUNT)

\* range(START, START + COUNT)
Range == START..(START + COUNT - 1)

\* continue as a retry: the loop body again, for the same index
Continue_Retry ==
    /\ pc' = "loop"
    /\ i' = i

\* continue: on to the next index, past the rest of the loop body
Continue ==
    /\ pc' = "loop"
    /\ i' = i + 1

\* The lines create_test_users prints before the loop
Begin ==
    /\ pc = "start"
    /\ LET o1 == log_line(out, Rep("=", 50), 0)
           o2 == log_line(o1, "Starting user creation: " \o ToString(COUNT)
                                  \o " user(s) from index " \o ToString(START), 0)
           o3 == log_line(o2, Rep("=", 50) \o "\n", 0)
           o4 == log_line(o3, "Token source: "
                                  \o (IF USE_LOGIN_TOKEN THEN "Login API"
                                      ELSE "User Creation API") \o "\n", 0)
           o5 == IF ~CREATE_PROFILES /\ USE_LOGIN_TOKEN
                 THEN log_line(o4, "[!] Warning: USE_LOGIN_TOKEN is True but CREATE_PROFILES is False\n", 0)
                 ELSE o4
       IN  out' = o5
    /\ pc' = "loop"
    /\ i' = START
    /\ UNCHANGED <<config, counters, user_id, access_token, calls, iter0, summary, stvars>>

\* UserErrorMessage storing what is logged: the body cut by short_text
UserErrorMessage_Truncated(resp) == short_text(resp.text, DefaultLimit)

\* The message the loop stores for a user-creation response that is neither a
\* success nor an already-exists 400
UserErrorMessage(resp) == resp.text

MissingTokenText == "Missing access token in creation response"

\* ProfilesEnabled also when only the login token is asked for
ProfilesEnabled_OrLoginToken == CREATE_PROFILES \/ USE_LOGIN_TOKEN

\* if CREATE_PROFILES:
ProfilesEnabled == CREATE_PROFILES

\* OnException with the second except clause missing: an exception that is no
\* RequestException leaves create_test_users
OnException_RequestExceptionOnly(o, email, exc) ==
    IF exc.cls = "RequestException"
    THEN /\ out' = log_line(o, "-> [!] Network error for " \o email \o ": " \o exc.msg, 1)
         /\ failed' = failed + 1
         /\ errors' = Append(errors, <<email, exc.msg>>)
         /\ pc' = "wait_user"
         /\ UNCHANGED <<users_created, i, user_id, access_token>>
    ELSE /\ pc' = "raised"
         /\ UNCHANGED <<out, failed, errors, users_created, i, user_id, access_token>>

\* except requests.RequestException as e / except Exception as e
OnException(o, email, exc) ==
    /\ out' = log_line(o, (IF exc.cls = "RequestException"
                           THEN "-> [!] Network error for "
                           ELSE "-> [!] Unexpected error for ")
                          \o email \o ": " \o exc.msg, 1)
    /\ failed' = failed + 1
    /\ errors' = Append(errors, <<email, exc.msg>>)
    /\ pc' = "wait_user"
    /\ UNCHANGED <<users_created, i, user_id, access_token>>

\* OnMissingId with the user counted before the id is looked at
OnMissingId_UserCounted(o, email, uid) ==
    /\ out' = log_line(o, "-> [!] Created user but couldn't find ID in response: "
                          \o email, 1)
    /\ users_created' = users_created + 1
    /\ failed' = failed + 1
    /\ user_id' = uid
    /\ pc' = "loop"
    /\ i' = i + 1
    /\ UNCHANGED <<errors, access_token>>

\* if not user_id: ... continue
OnMissingId(o, email, uid) ==
    /\ out' = log_line(o, "-> [!] Created user but couldn't find ID in response: "
                          \o email, 1)
    /\ failed' = failed + 1
    /\ user_id' = uid
    /\ Continue
    /\ UNCHANGED <<users_created, errors, access_token>>

\* OnCreated falling back on the login API when the creation response has
\* no access token
OnCreated_FallbackLogin(o, email, password, uid, access) ==
    /\ users_created' = users_created + 1
    /\ user_id' = uid
    /\ LET o2 == log_line(o, "-> [v] Created user: " \o email
                             \o " (ID: '" \o PyStr(uid)
                             \o "') (Password: '" \o password \o "')", 1)
       IN  IF ProfilesEnabled /\ USE_LOGIN_TOKEN
           THEN /\ access_token' = None
                /\ out' = o2
                /\ pc' = "login"
                /\ UNCHANGED <<failed, errors, i>>
           ELSE IF ProfilesEnabled /\ Truthy(access)
           THEN /\ access_token' = access
                /\ out' = log_line(o2, "-> [v] Using access token from user creation response", 1)
                /\ pc' = "profile"
                /\ UNCHANGED <<failed, errors, i>>
           ELSE IF ProfilesEnabled
           THEN /\ access_token' = None
                /\ out' = o2
                /\ pc' = "login"
                /\ UNCHANGED <<failed, errors, i>>
           ELSE /\ out' = log_line(o2, "-> [~] Skipped profile creation (disabled)", 1)
                /\ pc' = "wait_user"
                /\ UNCHANGED <<failed, errors, i, access_token>>

\* a 200/201 response with an id: the user is counted, then the token source
\* is chosen
OnCreated(o, email, password, uid, access) ==
    /\ users_created' = users_created + 1
    /\ user_id' = uid
    /\ LET o2 == log_line(o, "-> [v] Created user: " \o email
                             \o " (ID: '" \o PyStr(uid)
                             \o "') (Password: '" \o password \o "')", 1)
       IN  IF ProfilesEnabled /\ USE_LOGIN_TOKEN
           THEN /\ access_token' = None
                /\ out' = o2
                /\ pc' = "login"
                /\ UNCHANGED <<failed, errors, i>>
           ELSE IF ProfilesEnabled /\ Truthy(access)
           THEN /\ access_token' = access
                /\ out' = log_line(o2, "-> [v] Using access token from user creation response", 1)
                /\ pc' = "profile"
                /\ UNCHANGED <<failed, errors, i>>
           ELSE IF ProfilesEnabled
           THEN /\ access_token' = access
                /\ out' = log_line(o2, "-> [x] Access token not found in user creation response for "
                                       \o email, 1)
                /\ failed' = failed + 1
                /\ errors' = Append(errors, <<email, MissingTokenText>>)
                /\ Continue
           ELSE /\ out' = log_line(o2, "-> [~] Skipped profile creation (disabled)", 1)
                /\ pc' = "wait_user"
                /\ UNCHANGED <<failed, errors, i, access_token>>

\* OnExists counting the existing user as a failure
OnExists_CountsFailure(o, email) ==
    /\ out' = log_line(o, "-> [~] Skipped existing user: " \o email, 1)
    /\ failed' = failed + 1
    /\ pc' = "wait_user"
    /\ UNCHANGED <<users_created, errors, i, user_id, access_token>>

\* elif response.status_code == 400 and "exist" in response.text.lower()
OnExists(o, email) ==
    /\ out' = log_line(o, "-> [~] Skipped existing user: " \o email, 1)
    /\ pc' = "wait_user"
    /\ UNCHANGED <<users_created, failed, errors, i, user_id, access_token>>

\* else: any other status
OnFailure(o, email, resp) ==
    /\ out' = log_line(o, "-> [x] Failed for " \o email \o ": "
                          \o ToString(resp.status) \o " "
                          \o short_text(resp.text, DefaultLimit), 1)
    /\ failed' = failed + 1
    /\ errors' = Append(errors, <<email, UserErrorMessage(resp)>>)
    /\ pc' = "wait_user"
    /\ UNCHANGED <<users_created, i, user_id, access_token>>

(***************************************************************************)
(* One pass of the loop body up to the first call it makes of login_user   *)
(* or create_user_profile: the user-creation request and what the loop     *)
(* does with its outcome resp.                                             *)
(***************************************************************************)
CreateUserGot(resp) ==
    /\ pc = "loop"
    /\ i \in Range
    /\  LET email == Email(i)
            password == Password(i)
            o1 == log_line(out, "[.] Processing user " \o ToString(i - START + 1)
                                    \o "/" \o ToString(COUNT) \o ": " \o email, 0)
            exc == IF resp.exc # "none" THEN [cls |-> resp.exc, msg |-> resp.msg]
                   ELSE IF IsSuccess(resp.status) THEN ParseFailure(resp)
                   ELSE [cls |-> "none", msg |-> ""]
            user_result == Get(resp.json, "result", EmptyDict)
            uid == Get(user_result, "id", None)
            access == Get(user_result, "access", None)
        IN  /\ calls' = post(calls, "user", i, USER_API_URL, UserRequest(i), resp)
            /\ iter0' = Snapshot
            /\ IF exc.cls # "none" THEN OnException(o1, email, exc)
               ELSE IF IsSuccess(resp.status) /\ ~Truthy(uid)
                    THEN OnMissingId(o1, email, uid)
               ELSE IF IsSuccess(resp.status)
                    THEN OnCreated(o1, email, password, uid, access)
               ELSE IF AlreadyExists(resp) THEN OnExists(o1, email)
               ELSE OnFailure(o1, email, resp)
    /\ UNCHANGED <<config, profiles_created, summary, stvars>>

\* the user-creation step, for whatever the server may answer
CreateUser == \E resp \in UserResponses : CreateUserGot(resp)

(***************************************************************************)
(* The login branch of the loop body: the delay, login_user, and either    *)
(* continue or the delay before the profile.                               *)
(***************************************************************************)
LoginGot(resp) ==
    /\ pc = "login"
    /\  LET c1 == wait(calls, "login", i)
            o1 == log_line(out, "-> [.] Attempting login to get access token...", 1)
            c2 == post(c1, "login", i, LOGIN_API_URL, LoginRequest(i), resp)
            r  == login_user(Email(i), Password(i), resp, o1)
        IN  /\ access_token' = r.ret
            /\ failed' = r.failed
            /\ errors' = r.errors
            /\ out' = r.out
            /\ IF ~Truthy(r.ret)
               THEN /\ calls' = c2
                    /\ Continue
               ELSE /\ calls' = wait(c2, "profile", i)
                    /\ pc' = "profile"
                    /\ UNCHANGED i
    /\ UNCHANGED <<config, users_created, profiles_created, user_id, iter0, summary, stvars>>

\* the login step, for whatever the server may answer
Login == \E resp \in LoginResponses : LoginGot(resp)

(***************************************************************************)
(* The profile step of the loop body: create_user_profile, and continue    *)
(* when it returns False.                                                  *)
(***************************************************************************)
ProfileGot(resp) ==
    /\ pc = "profile"
    /\  LET o1 == log_line(out, "-> [.] Attempting user profile creation...", 1)
            r  == create_user_profile(user_id, Email(i), access_token, resp, o1)
        IN  /\ calls' = post(calls, "profile", i, ProfileUrl,
                             ProfileRequest(user_id, access_token), resp)
            /\ profiles_created' = r.profiles_created
            /\ failed' = r.failed
            /\ errors' = r.errors
            /\ out' = r.out
            /\ IF ~r.ret
               THEN Continue
               ELSE /\ pc' = "wait_user"
                    /\ UNCHANGED i
    /\ UNCHANGED <<config, users_created, user_id, access_token, iter0, summary, stvars>>

\* the profile step, for whatever the server may answer
Profile == \E resp \in ProfileResponses : ProfileGot(resp)

\* The end of the loop body: wait("user"), then the next index
WaitUser ==
    /\ pc = "wait_user"
    /\ calls' = wait(calls, "user", i)
    /\ pc' = "loop"
    /\ i' = i + 1
    /\ UNCHANGED <<config, counters, user_id, access_token, out, iter0, summary, stvars>>

\* min(a, b)
Min(a, b) == IF a <= b THEN a ELSE b

RECURSIVE LogErrors(_, _)
\* for email, msg in es: log_line(f"- {email}: {short_text(msg, limit=200)}", level=1)
LogErrors(o, es) ==
    IF es = <<>> THEN o
    ELSE LogErrors(log_line(o, "- " \o Head(es)[1] \o ": "
                                   \o short_text(Head(es)[2], SummaryLimit), 1),
                   Tail(es))

\* Displayed without the slice: every record is shown
Displayed_All(es) == es

\* self.errors[:MAX_ERROR_DISPLAY]
Displayed(es) == SubSeq(es, 1, Min(MAX_ERROR_DISPLAY, Len(es)))

(***************************************************************************)
(* After the loop: the summary is printed and returned.                    *)
(***************************************************************************)
Summarize ==
    /\ pc = "loop"
    /\ i \notin Range
    /\ LET o1 == log_line(out, "\n" \o Rep("=", 50), 0)
           o2 == log_line(o1, "[v] Users created: " \o ToString(users_created), 0)
           o3 == log_line(o2, "[v] Profiles created: " \o ToString(profiles_created), 0)
           o4 == log_line(o3, "[x] Failed: " \o ToString(failed), 0)
           o5 == IF errors # <<>>
                 THEN LogErrors(log_line(o4, "\nErrors (showing "
                                    \o ToString(Min(MAX_ERROR_DISPLAY, Len(errors)))
                                    \o "):", 0),
                                Displayed(errors))
                 ELSE o4
       IN  out' = log_line(o5, Rep("=", 50), 0)
    /\ summary' = [returned |-> TRUE, users_created |-> users_created,
                   profiles_created |-> profiles_created, failed |-> failed,
                   errors |-> errors]
    /\ pc' = "done"
    /\ UNCHANGED <<config, counters, i, user_id, access_token, calls, iter0, stvars>>

Next ==
    \/ Begin
    \/ CreateUser
    \/ Login
    \/ Profile
    \/ WaitUser
    \/ Summarize

Spec == Init /\ [][Next]_vars

(***************************************************************************)
(* short_text on its own: a call with any short text and any small limit.  *)
(***************************************************************************)
Alphabet == {"a", "."}

RECURSIVE TextsOfLen(_)
TextsOfLen(n) ==
    IF n = 0 THEN {""}
    ELSE {t \o c : t \in TextsOfLen(n - 1), c \in Alphabet}

Texts == UNION {TextsOfLen(n) : n \in 0..MaxTextLen}

InitShortText ==
    /\ st_text \in Texts
    /\ st_limit \in (-1)..MaxLimit
    /\ st_result = ""
    /\ st_pc = "call"
    /\ verbose = TRUE
    /\ CREATE_PROFILES = TRUE
    /\ USE_LOGIN_TOKEN = TRUE
    /\ START = 1
    /\ COUNT = 0
    /\ pc = "start"
    /\ i = START
    /\ InitObject

ShortTextCall ==
    /\ st_pc = "call"
    /\ st_result' = short_text(st_text, st_limit)
    /\ st_pc' = "return"
    /\ UNCHANGED <<st_text, st_limit, runvars>>

NextShortText == ShortTextCall

SpecShortText == InitShortText /\ [][NextShortText]_vars

(***************************************************************************)
(* Runs long enough to collect more error records than the summary shows:  *)
(* up to MaxDisplayCount identities, each of which fails at user creation. *)
(***************************************************************************)
FailingUserResponses ==
    { Response(500, BodyLong, FALSE, None),
      Raised("RequestException", "Connection refused") }

InitDisplay ==
    /\ verbose = TRUE
    /\ CREATE_PROFILES = TRUE
    /\ USE_LOGIN_TOKEN = TRUE
    /\ START = 1
    /\ COUNT \in 0..MaxDisplayCount
    /\ pc = "start"
    /\ i = START
    /\ InitObject
    /\ InitNoShortText

CreateUserFailing == \E resp \in FailingUserResponses : CreateUserGot(resp)

NextDisplay ==
    \/ Begin
    \/ CreateUserFailing
    \/ WaitUser
    \/ Summarize

SpecDisplay == InitDisplay /\ [][NextDisplay]_vars

(***************************************************************************)
(* Runs against a server that misbehaves in every way the three calls can  *)
(* meet: a transport exception, a 2xx body that is no JSON (for which      *)
(* response.json() raises a RequestException subclass or, with an older    *)
(* requests, a ValueError), and a 2xx body whose "result" is null.  The    *)
(* program is sequential and, every call returning or raising, always      *)
(* takes its next step: weak fairness of the next-state action.            *)
(***************************************************************************)
BadJson(status, text, cls) ==
    [Response(status, text, FALSE, None) EXCEPT !.json_exc = cls]

FaultyUserResponses ==
    { Response(201, "{\"result\": {\"id\": 7, \"access\": \"tokC\"}}", TRUE,
               VDict([result |-> VDict([id |-> VInt(7), access |-> VStr("tokC")])])),
      BadJson(200, "<html>", "RequestException"),
      BadJson(201, "<html>", "Exception"),
      Response(200, "{\"result\": null}", TRUE, VDict([result |-> None])),
      Raised("RequestException", "Connection refused") }

FaultyLoginResponses ==
    { Response(200, "{\"result\": {\"access\": \"tokL\"}}", TRUE,
               VDict([result |-> VDict([access |-> VStr("tokL")])])),
      BadJson(200, "<html>", "RequestException"),
      Response(200, "{\"result\": null}", TRUE, VDict([result |-> None])),
      Raised("RequestException", "Read timed out") }

FaultyProfileResponses ==
    { Response(201, "{}", TRUE, EmptyDict),
      Response(500, "<html>", FALSE, None),
      Raised("RequestException", "Read timed out") }

InitFaulty ==
    /\ verbose = TRUE
    /\ CREATE_PROFILES \in BOOLEAN
    /\ USE_LOGIN_TOKEN \in BOOLEAN
    /\ START = 1
    /\ COUNT \in 0..MaxFaultyCount
    /\ pc = "start"
    /\ i = START
    /\ InitObject
    /\ InitNoShortText

CreateUserFaulty == \E resp \in FaultyUserResponses : CreateUserGot(resp)

LoginFaulty == \E resp \in FaultyLoginResponses : LoginGot(resp)

ProfileFaulty == \E resp \in FaultyProfileResponses : ProfileGot(resp)

NextFaulty ==
    \/ Begin
    \/ CreateUserFaulty
    \/ LoginFaulty
    \/ ProfileFaulty
    \/ WaitUser
    \/ Summarize

SpecFaulty == InitFaulty /\ [][NextFaulty]_vars /\ WF_vars(NextFaulty)

(***************************************************************************)
(* Properties.  What follows states the documented behaviour over the      *)
(* history of requests and delays; a response is classified here by what   *)
(* it carries, not by the operators the model of the code uses.            *)
(***************************************************************************)
Last(sq) == sq[Len(sq)]

IsPost(c, api) == c.ev = "post" /\ c.api = api

IsUserPost(c) == IsPost(c, "user")

IsHttp2xx(resp) == resp.exc = "none" /\ (resp.status = 200 \/ resp.status = 201)

\* the nested result object of a parsed body, or the empty record
ResultOf(resp) ==
    IF resp.json_ok /\ resp.json.t = "dict" /\ "result" \in DOMAIN resp.json.v
    THEN resp.json.v.result
    ELSE [t |-> "dict", v |-> <<>>]

\* a body that parses down to the nested result object
Parses(resp) == resp.json_ok /\ resp.json.t = "dict" /\ ResultOf(resp).t = "dict"

HasField(resp, k) ==
    /\ Parses(resp)
    /\ k \in DOMAIN ResultOf(resp).v
    /\ ResultOf(resp).v[k] \notin
           {[t |-> "null"], [t |-> "str", v |-> ""], [t |-> "int", v |-> 0]}

UserOk(resp) == IsHttp2xx(resp) /\ HasField(resp, "id")
LoginOk(resp) == IsHttp2xx(resp) /\ HasField(resp, "access")
ProfileOk(resp) == IsHttp2xx(resp)

\* the text of a failure: the exception's, else the response body
FailureText(resp) ==
    IF resp.exc # "none" THEN resp.msg
    ELSE IF IsHttp2xx(resp) /\ ~Parses(resp)
         THEN (IF resp.json_ok THEN NoGetText ELSE JsonErrorText)
    ELSE resp.text

\* no login and no profile request was sent for the identity of index idx
NoFurtherCalls(idx) ==
    \A k \in 1..Len(calls) :
        calls[k].idx = idx => ~IsPost(calls[k], "login") /\ ~IsPost(calls[k], "profile")

\* the state right after the handling of a request to api
JustPosted(api) == calls # <<>> /\ IsPost(Last(calls), api)

\* C1: a run sends exactly one user-creation request for each index of
\* [START, START + COUNT), in ascending order, whatever became of the
\* identities before: at every moment the user-creation requests sent so far
\* are those of START, START + 1, ... with none left out or repeated, never
\* more than COUNT, and exactly COUNT once the summary is returned.
C1_OneUserRequestPerIndex ==
    LET ups == SelectSeq(calls, IsUserPost)
    IN  /\ \A k \in 1..Len(ups) : ups[k].idx = START + k - 1
        /\ Len(ups) <= COUNT
        /\ pc = "done" => Len(ups) = COUNT

\* a finished run of three identities, the first two of which failed
C1_Witness ==
    LET ups == SelectSeq(calls, IsUserPost)
    IN  /\ pc = "done"
        /\ COUNT = 3
        /\ Len(ups) = 3
        /\ ~UserOk(ups[1].resp)
        /\ ups[2].resp.exc # "none"
        /\ UserOk(ups[3].resp)

\* C2: whenever failed is incremented one error record is appended, so that
\* failed = len(errors) at every iteration boundary and in the summary.
C2_FailedEqualsErrors ==
    /\ pc \in {"loop", "done"} => failed = Len(errors)
    /\ pc = "done" => summary.failed = Len(summary.errors)

\* C3: a login that fails after a successful user creation (login-token
\* mode) leaves users_created one higher than at the start of the iteration,
\* profiles_created unchanged, failed one higher, exactly one new error
\* record <<email, login failure text>>, no token, no profile request for
\* the identity, and the loop past that identity.
C3_LoginFailure ==
    (JustPosted("login") /\ ~LoginOk(Last(calls).resp)) =>
        /\ users_created = iter0.users_created + 1
        /\ profiles_created = iter0.profiles_created
        /\ failed = iter0.failed + 1
        /\ Len(errors) = iter0.nerrors + 1
        /\ Last(errors) = <<Email(Last(calls).idx), FailureText(Last(calls).resp)>>
        /\ access_token = None
        /\ \A k \in 1..Len(calls) :
               calls[k].idx = Last(calls).idx => ~IsPost(calls[k], "profile")
        /\ pc \in {"loop", "done"}
        /\ i = Last(calls).idx + 1

\* a login answered 401 for a user created just before
C3_Witness ==
    /\ JustPosted("login")
    /\ Last(calls).resp.status = 401
    /\ CREATE_PROFILES /\ USE_LOGIN_TOKEN
    /\ UserOk(calls[Len(calls) - 2].resp)
    /\ failed = iter0.failed + 1

\* C4: a 200/201 user-creation response whose result object has no id
\* raises failed by exactly one, leaves users_created and profiles_created
\* alone, is followed by no login and no profile request for the identity,
\* and the loop goes on to the next index.
C4_MissingId ==
    (/\ JustPosted("user")
     /\ IsHttp2xx(Last(calls).resp)
     /\ Parses(Last(calls).resp)
     /\ ~HasField(Last(calls).resp, "id")) =>
        /\ failed = iter0.failed + 1
        /\ users_created = iter0.users_created
        /\ profiles_created = iter0.profiles_created
        /\ NoFurtherCalls(Last(calls).idx)
        /\ pc \in {"loop", "done"}
        /\ i = Last(calls).idx + 1
        /\ (i \in Range => ENABLED CreateUser)

\* the first of two identities came back 201 without an id
C4_Witness ==
    /\ JustPosted("user")
    /\ Last(calls).resp.status = 201
    /\ "id" \notin DOMAIN ResultOf(Last(calls).resp).v
    /\ COUNT >= 2
    /\ Last(calls).idx = START
    /\ pc = "loop"

\* C5: a 400 user-creation response whose body contains "exist" in any case
\* is a skip: users_created, profiles_created, failed and errors are as they
\* were when the iteration began, and no login and no profile request is
\* sent for the identity, whatever the options and the position in the run.
C5_ExistsIsSkip ==
    \A k \in 1..Len(calls) :
        (/\ IsUserPost(calls[k])
         /\ calls[k].resp.exc = "none"
         /\ calls[k].resp.status = 400
         /\ Contains(Lower(calls[k].resp.text), "exist")) =>
            /\ NoFurtherCalls(calls[k].idx)
            /\ k = Len(calls) =>
                   /\ users_created = iter0.users_created
                   /\ profiles_created = iter0.profiles_created
                   /\ failed = iter0.failed
                   /\ Len(errors) = iter0.nerrors
                   /\ pc = "wait_user"

\* the second identity is skipped as existing, after one that was created
C5_Witness ==
    /\ JustPosted("user")
    /\ Last(calls).resp.status = 400
    /\ Contains(Last(calls).resp.text, "Exists")
    /\ Last(calls).idx = START + 1
    /\ users_created = 1
    /\ iter0.users_created = 1

\* C6: with CREATE_PROFILES false, profiles_created is 0 and no login and no
\* profile request has been sent, in every state of the run.
C6_ProfilesDisabled ==
    ~CREATE_PROFILES =>
        /\ profiles_created = 0
        /\ \A k \in 1..Len(calls) :
               ~IsPost(calls[k], "login") /\ ~IsPost(calls[k], "profile")

\* profiles are disabled, the token source is the login API, and three users
\* were created
C6_Witness ==
    /\ ~CREATE_PROFILES
    /\ USE_LOGIN_TOKEN
    /\ pc = "done"
    /\ users_created = 3

\* every request of the run was answered with a success
AllCallsSucceeded ==
    \A k \in 1..Len(calls) :
        /\ IsPost(calls[k], "user") => UserOk(calls[k].resp)
        /\ IsPost(calls[k], "login") => LoginOk(calls[k].resp)
        /\ IsPost(calls[k], "profile") => ProfileOk(calls[k].resp)

\* C7: in login-token mode with profiles enabled, a run all of whose calls
\* succeed returns users_created = COUNT, profiles_created = COUNT,
\* failed = 0 and no errors.
C7_AllSucceed ==
    (pc = "done" /\ CREATE_PROFILES /\ USE_LOGIN_TOKEN /\ AllCallsSucceeded) =>
        summary = [returned |-> TRUE, users_created |-> COUNT,
                   profiles_created |-> COUNT, failed |-> 0, errors |-> <<>>]

\* the case of three identities, with the nine requests sent
C7_Witness ==
    /\ pc = "done"
    /\ CREATE_PROFILES /\ USE_LOGIN_TOKEN
    /\ AllCallsSucceeded
    /\ COUNT = 3
    /\ Cardinality({k \in 1..Len(calls) : calls[k].ev = "post"}) = 9

\* a response that is an HTTP answer, neither a success nor the
\* already-exists 400
IsOtherStatus(resp) ==
    /\ resp.exc = "none"
    /\ ~IsHttp2xx(resp)
    /\ ~(resp.status = 400 /\ Contains(Lower(resp.text), "exist"))

\* text cut to limit characters and marked, when it is longer
Truncated(text, limit) ==
    IF Len(text) > limit THEN SubSeq(text, 1, limit) \o "..." ELSE text

\* C8, as claimed: the message stored for a user-creation response of
\* another status, or for a profile response that is no success, is the
\* truncated body: no longer than the truncation limit plus the ellipsis.
C8_StoredMessageTruncated ==
    (\/ JustPosted("user") /\ IsOtherStatus(Last(calls).resp)
     \/ JustPosted("profile") /\ Last(calls).resp.exc = "none"
            /\ ~IsHttp2xx(Last(calls).resp)) =>
        Len(Last(errors)[2]) <= SummaryLimit + Len(Ellipsis)

\* C8, amended: the message stored is the whole response body (after
\* "profile: " for a profile response); it is the logged line that carries
\* the body cut to DefaultLimit characters and the ellipsis.
C8_StoredMessageFull ==
    /\ (JustPosted("user") /\ IsOtherStatus(Last(calls).resp)) =>
        /\ Len(errors) = iter0.nerrors + 1
        /\ Last(errors) = <<Email(Last(calls).idx), Last(calls).resp.text>>
        /\ Last(out) = "    -> [x] Failed for " \o Email(Last(calls).idx) \o ": "
                           \o ToString(Last(calls).resp.status) \o " "
                           \o Truncated(Last(calls).resp.text, 100)
    /\ (JustPosted("profile") /\ Last(calls).resp.exc = "none"
            /\ ~IsHttp2xx(Last(calls).resp)) =>
        /\ Last(errors) = <<Email(Last(calls).idx),
                            "profile: " \o Last(calls).resp.text>>
        /\ pc # "done" =>
               Last(out) = "        -> [x] Failed to create profile: "
                               \o ToString(Last(calls).resp.status) \o " "
                               \o Truncated(Last(calls).resp.text, 100)

\* a user-creation answer of status 500 whose body is longer than any limit,
\* stored whole
C8_Witness ==
    /\ JustPosted("user")
    /\ Last(calls).resp.status = 500
    /\ Len(Last(calls).resp.text) > 203
    /\ errors # <<>>
    /\ Len(Last(errors)[2]) > 203

\* C9: for a limit >= 0, short_text returns the text unchanged when it has
\* at most limit characters, and otherwise its first limit characters
\* followed by "...", limit + 3 characters in all.
C9_ShortText ==
    (st_pc = "return" /\ st_limit >= 0) =>
        /\ Len(st_text) <= st_limit => st_result = st_text
        /\ Len(st_text) > st_limit =>
               /\ Len(st_result) = st_limit + 3
               /\ SubSeq(st_result, 1, st_limit) = SubSeq(st_text, 1, st_limit)
               /\ SubSeq(st_result, st_limit + 1, st_limit + 3) = "..."

\* a text one character longer than the limit has been cut
C9_Witness ==
    /\ st_pc = "return"
    /\ st_limit = 2
    /\ Len(st_text) = 3
    /\ st_result # st_text

\* C10: wait("user") is applied exactly once after each identity, whatever
\* its outcome, and before the next user-creation request: every
\* user-creation request but the first comes right after the end-of-iteration
\* delay of the index before it, a finished run ends with that delay, and no
\* index has two of them.
C10_DelayAfterEveryIdentity ==
    /\ \A k \in 2..Len(calls) :
           IsUserPost(calls[k]) =>
               /\ calls[k - 1].ev = "sleep"
               /\ calls[k - 1].api = "user"
               /\ calls[k - 1].idx = calls[k].idx - 1
    /\ (pc = "done" /\ COUNT > 0) =>
           Last(calls).ev = "sleep" /\ Last(calls).api = "user"
    /\ \A k, m \in 1..Len(calls) :
           (/\ calls[k].ev = "sleep" /\ calls[k].api = "user"
            /\ calls[m].ev = "sleep" /\ calls[m].api = "user"
            /\ calls[k].idx = calls[m].idx) => k = m

\* the error record a request of the history should have left, as a sequence
\* of none or one
ErrorOfCall(c) ==
    IF c.ev # "post" THEN <<>>
    ELSE IF c.api = "user"
    THEN IF c.resp.exc # "none" \/ (IsHttp2xx(c.resp) /\ ~Parses(c.resp))
         THEN << <<Email(c.idx), FailureText(c.resp)>> >>
         ELSE IF IsHttp2xx(c.resp)
         THEN IF /\ HasField(c.resp, "id") /\ ~HasField(c.resp, "access")
                 /\ CREATE_PROFILES /\ ~USE_LOGIN_TOKEN
              THEN << <<Email(c.idx), "Missing access token in creation response">> >>
              ELSE <<>>
         ELSE IF IsOtherStatus(c.resp)
         THEN << <<Email(c.idx), c.resp.text>> >>
         ELSE <<>>
    ELSE IF c.api = "login"
    THEN IF LoginOk(c.resp) THEN <<>>
         ELSE << <<Email(c.idx), FailureText(c.resp)>> >>
    ELSE IF ProfileOk(c.resp) THEN <<>>
    ELSE IF c.resp.exc # "none" THEN << <<Email(c.idx), c.resp.msg>> >>
    ELSE << <<Email(c.idx), "profile: " \o c.resp.text>> >>

RECURSIVE ErrorsOfHistory(_)
\* the error records of a history, in the order of the requests
ErrorsOfHistory(h) ==
    IF h = <<>> THEN <<>>
    ELSE ErrorsOfHistory(SubSeq(h, 1, Len(h) - 1)) \o ErrorOfCall(h[Len(h)])

\* C11: the summary display shows the first min(MAX_ERROR_DISPLAY,
\* len(errors)) error records and no more, in order of occurrence, each on
\* its own line after the "Errors (showing n)" line; the errors list that
\* create_test_users returns holds every record of the run, in order.
C11_DisplayBoundedListWhole ==
    pc = "done" =>
        LET n == IF Len(errors) > 10 THEN 10 ELSE Len(errors)
            h == Len(out) - n - 1
        IN  /\ summary.errors = errors
            /\ summary.errors = ErrorsOfHistory(calls)
            /\ out[Len(out)] = Rep("=", 50)
            /\ errors = <<>> => out[Len(out) - 1] = "[x] Failed: " \o ToString(failed)
            /\ errors # <<>> =>
                   /\ out[h - 1] = "[x] Failed: " \o ToString(failed)
                   /\ out[h] = "\nErrors (showing " \o ToString(n) \o "):"
                   /\ \A k \in 1..n :
                          out[h + k] = "    - " \o errors[k][1] \o ": "
                                           \o Truncated(errors[k][2], 200)

\* eleven records were collected, one more than is shown
C11_Witness ==
    /\ pc = "done"
    /\ Len(summary.errors) = 11
    /\ summary.errors[11] = <<"testuser11@example.com", "Connection refused">>
    /\ Len(summary.errors[1][2]) > 200

\* C12: no error is fatal to the run.  Every call returning or raising,
\* every run reaches the summary and returns it: no exception of a
\* user-creation, login or profile call (transport, JSON parsing, malformed
\* result object) leaves create_test_users, login_user or
\* create_user_profile.
C12_RunReturnsSummary == <>(pc = "done" /\ summary.returned)

\* a returned run in which a user-creation body was no JSON, a result object
\* was null and a login raised
C12_Witness ==
    /\ pc = "done"
    /\ summary.returned
    /\ \E k \in 1..Len(calls) :
           IsPost(calls[k], "user") /\ IsHttp2xx(calls[k].resp) /\ ~calls[k].resp.json_ok
    /\ \E k \in 1..Len(calls) :
           /\ IsPost(calls[k], "user") /\ calls[k].resp.json_ok
           /\ ~Parses(calls[k].resp)
    /\ \E k \in 1..Len(calls) :
           IsPost(calls[k], "login") /\ calls[k].resp.exc # "none"

\* C13: from one step of a run to the next, users_created, profiles_created
\* and failed never decrease, and errors only grows at its end: the records
\* it held are still there, unchanged and in place.
C13_CountersMonotone ==
    [][/\ users_created' >= users_created
       /\ profiles_created' >= profiles_created
       /\ failed' >= failed
       /\ Len(errors') >= Len(errors)
       /\ SubSeq(errors', 1, Len(errors)) = errors]_vars

\* every counter has moved, and a second record was appended after a first
C13_Witness ==
    /\ users_created >= 2
    /\ profiles_created >= 1
    /\ failed >= 2
    /\ Len(errors) >= 2
    /\ errors[1][1] # errors[2][1]

\* the requests sent for the identity idx, in order
PostsOf(idx) == SelectSeq(calls, LAMBDA c : c.ev = "post" /\ c.idx = idx)

\* the steps of one identity, the login step only in login-token mode
Protocol ==
    IF USE_LOGIN_TOKEN THEN <<"user", "login", "profile">> ELSE <<"user", "profile">>

\* the request c came back as its phase needs it
Succeeded(c) ==
    CASE c.api = "user" -> UserOk(c.resp)
      [] c.api = "login" -> LoginOk(c.resp)
      [] c.api = "profile" -> ProfileOk(c.resp)

\* before the k-th request of p, an access token was obtained for the identity
TokenObtained(p, k) ==
    IF USE_LOGIN_TOKEN
    THEN k > 1 /\ IsPost(p[k - 1], "login") /\ LoginOk(p[k - 1].resp)
    ELSE k > 1 /\ IsPost(p[1], "user") /\ HasField(p[1].resp, "access")

\* C14: the requests sent for one identity are a prefix of (create user,
\* login, create profile), the login step only in login-token mode, so each
\* is sent at most once; a login is sent only after a 2xx user-creation
\* response with an id, a profile request only after an access token was
\* obtained for the identity, and a request that failed is the last one sent
\* for its identity.
C14_PerIdentityProtocol ==
    /\ \A k \in 1..Len(calls) : calls[k].ev = "post" => calls[k].idx \in Range
    /\ \A idx \in Range :
           LET p == PostsOf(idx)
           IN  /\ Len(p) <= Len(Protocol)
               /\ \A k \in 1..Len(p) :
                      /\ p[k].api = Protocol[k]
                      /\ p[k].api = "login" =>
                             /\ CREATE_PROFILES /\ USE_LOGIN_TOKEN
                             /\ UserOk(p[1].resp)
                      /\ p[k].api = "profile" =>
                             /\ UserOk(p[1].resp)
                             /\ TokenObtained(p, k)
                      /\ k < Len(p) => Succeeded(p[k])

\* login-token mode: the first identity went through its three requests, the
\* second failed at login, the third at user creation
C14_Witness ==
    /\ pc = "done"
    /\ CREATE_PROFILES /\ USE_LOGIN_TOKEN
    /\ COUNT = 3
    /\ Len(PostsOf(START)) = 3
    /\ Len(PostsOf(START + 1)) = 2
    /\ ~LoginOk(PostsOf(START + 1)[2].resp)
    /\ Len(PostsOf(START + 2)) = 1
    /\ ~UserOk(PostsOf(START + 2)[1].resp)

\* the user-creation request of the identity of the k-th request
UserPostOf(k) ==
    calls[CHOOSE j \in 1..k : IsUserPost(calls[j]) /\ calls[j].idx = calls[k].idx]

\* C15: with CREATE_PROFILES true and USE_LOGIN_TOKEN false no login request
\* is ever sent.  A 2xx creation response with an id and no access token
\* raises users_created by one and failed by one, appends the one record
\* (email, "Missing access token in creation response"), and is followed by
\* no profile and no login request for the identity.  A profile request
\* carries, as "Bearer <token>", the access token of the creation response
\* of its identity.
C15_CreationTokenMode ==
    (CREATE_PROFILES /\ ~USE_LOGIN_TOKEN) =>
        /\ \A k \in 1..Len(calls) : ~IsPost(calls[k], "login")
        /\ \A k \in 1..Len(calls) :
               (/\ IsUserPost(calls[k])
                /\ UserOk(calls[k].resp)
                /\ ~HasField(calls[k].resp, "access")) =>
                   /\ NoFurtherCalls(calls[k].idx)
                   /\ k = Len(calls) =>
                          /\ users_created = iter0.users_created + 1
                          /\ failed = iter0.failed + 1
                          /\ profiles_created = iter0.profiles_created
                          /\ Len(errors) = iter0.nerrors + 1
                          /\ Last(errors) =
                                 <<Email(calls[k].idx),
                                   "Missing access token in creation response">>
        /\ \A k \in 1..Len(calls) :
               IsPost(calls[k], "profile") =>
                   /\ \E j \in 1..k : IsUserPost(calls[j]) /\ calls[j].idx = calls[k].idx
                   /\ HasField(UserPostOf(k).resp, "access")
                   /\ calls[k].req.headers.Authorization =
                          "Bearer " \o PyStr(ResultOf(UserPostOf(k).resp).v.access)

\* creation-token mode: the first identity's profile request was sent with
\* the token of its creation response, the second identity's creation
\* response had an id and no access token
C15_Witness ==
    /\ CREATE_PROFILES /\ ~USE_LOGIN_TOKEN
    /\ Len(calls) >= 3
    /\ IsPost(calls[2], "profile")
    /\ calls[2].req.headers.Authorization = "Bearer tokC"
    /\ JustPosted("user")
    /\ Last(calls).idx = START + 1
    /\ UserOk(Last(calls).resp)
    /\ ~HasField(Last(calls).resp, "access")
    /\ Last(errors)[2] = "Missing access token in creation response"

\* the identity idx was answered with the already-exists 400
Skipped(idx) ==
    LET p == PostsOf(idx)
    IN  /\ p # <<>>
        /\ p[1].resp.exc = "none"
        /\ p[1].resp.status = 400
        /\ Contains(Lower(p[1].resp.text), "exist")

\* the identity idx was created and then failed at the token or the profile
\* phase
FailedAfterCreation(idx) ==
    LET p == PostsOf(idx)
    IN  /\ p # <<>>
        /\ UserOk(p[1].resp)
        /\ \/ \E k \in 1..Len(p) : IsPost(p[k], "login") /\ ~LoginOk(p[k].resp)
           \/ \E k \in 1..Len(p) : IsPost(p[k], "profile") /\ ~ProfileOk(p[k].resp)
           \/ CREATE_PROFILES /\ ~USE_LOGIN_TOKEN /\ ~HasField(p[1].resp, "access")

\* C16: an identity adds at most one to failed.  When the run of COUNT
\* identities has returned: with profiles enabled, COUNT is the already-exists
\* skips plus profiles_created plus failed, and users_created is
\* profiles_created plus the identities that failed at the token or the
\* profile phase; with profiles disabled, COUNT is the already-exists skips
\* plus users_created plus failed.
C16_OutcomeAccounting ==
    /\ failed <= iter0.failed + 1
    /\ pc = "done" =>
           LET skips == Cardinality({idx \in Range : Skipped(idx)})
               later == Cardinality({idx \in Range : FailedAfterCreation(idx)})
           IN  IF CREATE_PROFILES
               THEN /\ COUNT = skips + profiles_created + failed
                    /\ users_created = profiles_created + later
               ELSE COUNT = skips + users_created + failed

\* profiles enabled, three identities: one skipped, one with its profile, one
\* created and failed afterwards
C16_Witness ==
    /\ pc = "done"
    /\ CREATE_PROFILES
    /\ COUNT = 3
    /\ Cardinality({idx \in Range : Skipped(idx)}) = 1
    /\ profiles_created = 1
    /\ failed = 1
    /\ Cardinality({idx \in Range : FailedAfterCreation(idx)}) = 1

\* the number of identities whose user-creation request was sent
Issued == Cardinality({calls[k].idx : k \in {j \in 1..Len(calls) : IsUserPost(calls[j])}})

\* C17: in every state of a run, profiles_created <= users_created <= the
\* number of identities whose user-creation request was sent <= COUNT, and
\* failed <= that number; no identity adds to both profiles_created and
\* failed, so the two together stay within that number as well.
C17_CounterBounds ==
    LET n == Issued
    IN  /\ profiles_created <= users_created
        /\ users_created <= n
        /\ n <= COUNT
        /\ failed <= n
        /\ ~(profiles_created > iter0.profiles_created /\ failed > iter0.failed)
        /\ profiles_created + failed <= n

\* all three requests were sent: one identity has its profile, one was
\* created and failed afterwards, one failed at creation
C17_Witness ==
    /\ COUNT = 3
    /\ Issued = 3
    /\ users_created = 2
    /\ profiles_created = 1
    /\ failed = 2
    /\ iter0.failed = 1

====
